---------------------------- MODULE Spec2Model ----------------------------
(***************************************************************************)
(* A model of eos, the generator that turns a tree of build.toml           *)
(* descriptions into build.ninja.                                          *)
(*                                                                         *)
(* Strings (String, &str, PathBuf, OsStr) are sequences of one-character   *)
(* strings, so suffix tests, joins, formatting and path pushes are         *)
(* computed character by character as the code computes them.              *)
(***************************************************************************)
EXTENDS Integers, Sequences, FiniteSets, TLC

\* ---- string literals of the program, as sequences of characters ----
DOT_C == <<".","c">>
DOT_O == <<".","o">>
BLD == <<"b","l","d">>
EXPECTED_C_SOURCE == <<":"," ","e","x","p","e","c","t","e","d"," ","c"," ",
    "s","o","u","r","c","e"," ","f","i","l","e">>
BUILD_TOML == <<"b","u","i","l","d",".","t","o","m","l">>
USR_SRC == <<"u","s","r","/","s","r","c">>
GCC_DEPS_FAILED == <<"u","s","i","n","g"," ","g","c","c"," ","t","o"," ","d",
    "e","t","e","r","m","i","n","e"," ","h","e","a","d","e","r"," ","d","e",
    "p","s"," ","f","a","i","l","e","d",":"," ">>
EXPECT_GCC == <<"f","a","i","l","e","d"," ","t","o"," ","e","x","e","c","u",
    "t","e"," ","g","c","c","-","1","0">>
CC_KERNEL == <<"c","c","_","k","e","r","n","e","l">>
LD_KMOD == <<"l","d","_","k","m","o","d">>
LD_GENUNIX == <<"l","d","_","g","e","n","u","n","i","x">>
VERSION == <<"5",".","1","1">>
MOD_DEPS == <<"m","o","d","_","d","e","p","s">>
DASH_N == <<"-","N">>
BLD_MODULES == <<"b","l","d","/","m","o","d","u","l","e","s","/">>
BLD_GENUNIX == <<"b","l","d","/","g","e","n","u","n","i","x">>
KERNEL_CFLAGS_NAME == <<"k","e","r","n","e","l","_","c","f","l","a","g","s">>
KERNEL_LDFLAGS_NAME == <<"k","e","r","n","e","l","_","l","d","f","l","a","g",
    "s">>
ZTYPE_KMOD == <<"-","z","t","y","p","e","=","k","m","o","d">>
CC_CMD_1 == <<"g","c","c","-","1","0"," ","$","k","e","r","n","e","l","_","c",
    "f","l","a","g","s"," ","-","c"," ","$","i","n"," ","-","o"," ","$","o",
    "u","t">>
CC_CMD_2 == <<"c","t","f","c","o","n","v","e","r","t"," ","-","X"," ","-","l",
    " ","'","5",".","1","1","'"," ","$","o","u","t">>
CC_CMD_3 == <<"s","t","r","i","p"," ","$","o","u","t">>
KMOD_CMD_1 == <<"l","d"," ","$","k","e","r","n","e","l","_","l","d","f","l",
    "a","g","s"," ","$","m","o","d","_","d","e","p","s"," ","-","o"," ","$",
    "o","u","t"," ","$","i","n">>
KMOD_CMD_2A == <<"c","t","f","m","e","r","g","e"," ","-","l"," ","'">>
KMOD_CMD_2B == <<"'"," ","-","d"," ","b","l","d","/","g","e","n","u","n","i",
    "x"," ","-","o"," ","$","o","u","t"," ","$","i","n">>
GENUNIX_CMD_1 == <<"l","d"," ","$","k","e","r","n","e","l","_","l","d","f",
    "l","a","g","s"," ","-","o"," ","$","o","u","t"," ","$","i","n">>
GENUNIX_CMD_2A == <<"c","t","f","m","e","r","g","e"," ","-","l"," ","'">>
GENUNIX_CMD_2B == <<"'"," ","-","o"," ","$","o","u","t"," ","$","i","n">>
AND_AND == <<" ","&","&"," ">>
EQ_SEP == <<" ","="," ">>
RULE_KW == <<"r","u","l","e"," ">>
COMMAND_KW == <<" "," ","c","o","m","m","a","n","d"," ","="," ">>
BUILD_KW == <<"b","u","i","l","d"," ">>
COLON_SP == <<":"," ">>
INDENT == <<" "," ">>
ERROR_WORD == <<"e","r","r","o","r">>
KERNEL_CFLAGS_VEC ==
  <<<<"-","s","t","d","=","g","n","u","9","9">>,
    <<"-","O","3">>,
    <<"-","g">>,
    <<"-","g","d","w","a","r","f","-","2">>,
    <<"-","g","s","t","r","i","c","t","-","d","w","a","r","f">>,
    <<"-","m","6","4">>,
    <<"-","m","c","m","o","d","e","l","=","k","e","r","n","e","l">>,
    <<"-","m","i","n","d","i","r","e","c","t","-","b","r","a","n","c","h","-","r","e","g","i","s","t","e","r">>,
    <<"-","m","i","n","d","i","r","e","c","t","-","b","r","a","n","c","h","=","t","h","u","n","k","-","e","x","t","e","r","n">>,
    <<"-","m","n","o","-","m","m","x">>,
    <<"-","m","n","o","-","r","e","d","-","z","o","n","e">>,
    <<"-","m","n","o","-","s","s","e">>,
    <<"-","m","s","a","v","e","-","a","r","g","s">>,
    <<"-","D","_","_","s","u","n">>,
    <<"-","D","_","_","S","V","R","4">>,
    <<"-","D","_","A","S","M","_","I","N","L","I","N","E","S">>,
    <<"-","D","_","D","D","I","_","S","T","R","I","C","T">>,
    <<"-","D","_","E","L","F","6","4">>,
    <<"-","D","_","K","E","R","N","E","L">>,
    <<"-","D","_","M","A","C","H","D","E","P">>,
    <<"-","D","_","S","Y","S","C","A","L","L","3","2">>,
    <<"-","D","_","S","Y","S","C","A","L","L","3","2","_","I","M","P","L">>,
    <<"-","D","l","i","n","t">>,
    <<"-","D","s","u","n">>,
    <<"-","U","_","_","i","3","8","6">>,
    <<"-","U","i","3","8","6">>,
    <<"-","I","u","s","r","/","s","r","c","/","u","t","s","/","i","n","t","e","l">>,
    <<"-","I","u","s","r","/","s","r","c","/","u","t","s","/","c","o","m","m","o","n">>,
    <<"-","I","u","s","r","/","s","r","c","/","c","o","m","m","o","n">>,
    <<"-","I","u","s","r","/","s","r","c","/","u","t","s","/","i","8","6","p","c">>,
    <<"-","I","u","s","r","/","s","r","c","/","u","t","s","/","c","o","m","m","o","n","/","f","s","/","z","f","s">>,
    <<"-","f","f","r","e","e","s","t","a","n","d","i","n","g">>,
    <<"-","f","n","o","-","i","n","l","i","n","e","-","s","m","a","l","l","-","f","u","n","c","t","i","o","n","s">>,
    <<"-","f","n","o","-","i","n","l","i","n","e","-","f","u","n","c","t","i","o","n","s","-","c","a","l","l","e","d","-","o","n","c","e">>,
    <<"-","f","n","o","-","i","p","a","-","c","p">>,
    <<"-","f","n","o","-","i","p","a","-","i","c","f">>,
    <<"-","f","n","o","-","c","l","o","n","e","-","f","u","n","c","t","i","o","n","s">>,
    <<"-","f","n","o","-","r","e","o","r","d","e","r","-","f","u","n","c","t","i","o","n","s">>,
    <<"-","f","n","o","-","r","e","o","r","d","e","r","-","b","l","o","c","k","s","-","a","n","d","-","p","a","r","t","i","t","i","o","n">>,
    <<"-","f","n","o","-","a","g","g","r","e","s","s","i","v","e","-","l","o","o","p","-","o","p","t","i","m","i","z","a","t","i","o","n","s">>,
    <<"-","f","n","o","-","s","h","r","i","n","k","-","w","r","a","p">>,
    <<"-","f","n","o","-","a","s","y","n","c","h","r","o","n","o","u","s","-","u","n","w","i","n","d","-","t","a","b","l","e","s">>,
    <<"-","f","s","t","a","c","k","-","p","r","o","t","e","c","t","o","r","-","s","t","r","o","n","g">>,
    <<"-","f","d","i","a","g","n","o","s","t","i","c","s","-","c","o","l","o","r","=","a","l","w","a","y","s">>,
    <<"-","-","p","a","r","a","m","=","m","a","x","-","i","n","l","i","n","e","-","i","n","s","n","s","-","s","i","n","g","l","e","=","4","5","0">>>>

\* ---- strings of the environment (file names, compiler and OS texts) ----
A_C == <<"a",".","c">>
B_C == <<"b",".","c">>
X_H == <<"x",".","h">>
ABS_R_C == <<"/","r",".","c">>
DEP_A == <<"a">>
DEP_B == <<"b">>
DRV == <<"d","r","v">>
DIR_D == <<"d">>
IO_ERROR == <<"E","A","C","C","E","S">>
TOML_ERROR == <<"b","a","d"," ","t","o","m","l">>
GCC_DIAG == <<"a",".","c",":","1",":"," ","e","r","r","o","r","\n">>
GCC_HEADERS == <<"."," ","a",".","h","\n",".","."," ","b",".","h","\n",
    "M","u","l","t","i","p","l","e","\n">>
OLD_NINJA == <<"o","l","d","\n">>

\* ---- bounds ----
\* longest source list of a description
MaxSrc == 2
\* longest dependency list of a module description
MaxDeps == 2
\* most directory entries in a tree handed to discovery
MaxEntries == 3

\* ---- str / String / Vec<String> operations used by the code ----
\* str::starts_with
StartsWith(s, p) == Len(p) <= Len(s) /\ SubSeq(s, 1, Len(p)) = p

\* str::strip_suffix: Some(prefix) when s ends with suf, None otherwise
StripSuffix(s, suf) ==
    IF Len(suf) <= Len(s) /\ SubSeq(s, Len(s) - Len(suf) + 1, Len(s)) = suf
    THEN [some |-> TRUE, val |-> SubSeq(s, 1, Len(s) - Len(suf))]
    ELSE [some |-> FALSE, val |-> <<>>]

\* [String]::join(sep)
RECURSIVE Join(_, _)
Join(strs, sep) ==
    IF strs = <<>> THEN <<>>
    ELSE IF Len(strs) = 1 THEN strs[1]
    ELSE strs[1] \o sep \o Join(Tail(strs), sep)

\* str::trim_start_matches(c): drops every leading c
RECURSIVE TrimStartMatches(_, _)
TrimStartMatches(s, c) ==
    IF s # <<>> /\ Head(s) = c THEN TrimStartMatches(Tail(s), c) ELSE s

\* str::lines: the text split at "\n" or "\r\n"; a final line needs no
\* terminator
StripCr(l) ==
    IF l # <<>> /\ l[Len(l)] = "\r" THEN SubSeq(l, 1, Len(l) - 1) ELSE l

RECURSIVE LinesFrom(_, _, _)
LinesFrom(s, i, cur) ==
    IF i > Len(s) THEN (IF cur = <<>> THEN <<>> ELSE <<cur>>)
    ELSE IF s[i] = "\n" THEN <<StripCr(cur)>> \o LinesFrom(s, i + 1, <<>>)
    ELSE LinesFrom(s, i + 1, Append(cur, s[i]))

Lines(s) == LinesFrom(s, 1, <<>>)

\* ---- PathBuf operations ----
\* length of p without its trailing separators
RECURSIVE TrimmedLen(_, _)
TrimmedLen(p, n) ==
    IF n > 0 /\ p[n] = "/" THEN TrimmedLen(p, n - 1) ELSE n

\* index of the last separator among p[1..n], 0 when there is none
RECURSIVE LastSep(_, _)
LastSep(p, n) ==
    IF n = 0 THEN 0 ELSE IF p[n] = "/" THEN n ELSE LastSep(p, n - 1)

\* PathBuf::push: an absolute argument replaces the path, otherwise it is
\* appended after a separator (none after an empty path or a separator)
PathPush(p, s) ==
    IF s # <<>> /\ s[1] = "/" THEN s
    ELSE IF p = <<>> \/ p[Len(p)] = "/" THEN p \o s
    ELSE p \o <<"/">> \o s

\* PathBuf::pop: truncates to the parent; a path without parent is kept
PathPop(p) ==
    LET n == TrimmedLen(p, Len(p))
        k == LastSep(p, n)
        m == TrimmedLen(p, k)
    IN  IF n = 0 THEN p
        ELSE IF k = 0 THEN <<>>
        ELSE IF m = 0 THEN <<"/">>
        ELSE SubSeq(p, 1, m)

\* ---- util.rs: object_source_map ----
\* an Ok(value) or Err(message) of std::io::Result
Ok(v) == [ok |-> TRUE, val |-> v, err |-> <<>>]
Err(e) == [ok |-> FALSE, val |-> <<>>, err |-> e]

\* the (source path, object path) pair of one declared source
ObjectSourcePair(base_path, src, out) ==
    <<PathPush(PathPop(base_path), src),
      PathPush(PathPop(PathPush(PathPush(<<>>, BLD), base_path)), out)>>

RECURSIVE ObjectSourceMapFrom(_, _, _, _)
ObjectSourceMapFrom(base_path, src, i, objs) ==
    IF i > Len(src) THEN Ok(objs)
    ELSE LET stripped == StripSuffix(src[i], DOT_C)
         IN  IF ~stripped.some
             THEN Err(src[i] \o EXPECTED_C_SOURCE)
             ELSE ObjectSourceMapFrom(base_path, src, i + 1,
                    Append(objs, ObjectSourcePair(base_path, src[i],
                                                  stripped.val \o DOT_O)))

\* object_source_map as it would be if a declaration without the suffix
\* were passed over instead of returned as an error
RECURSIVE ObjectSourceMapSkippingFrom(_, _, _, _)
ObjectSourceMapSkippingFrom(base_path, src, i, objs) ==
    IF i > Len(src) THEN Ok(objs)
    ELSE LET stripped == StripSuffix(src[i], DOT_C)
         IN  IF ~stripped.some
             THEN ObjectSourceMapSkippingFrom(base_path, src, i + 1, objs)
             ELSE ObjectSourceMapSkippingFrom(base_path, src, i + 1,
                    Append(objs, ObjectSourcePair(base_path, src[i],
                                                  stripped.val \o DOT_O)))

ObjectSourceMapSkipping(base_path, src) ==
    ObjectSourceMapSkippingFrom(base_path, src, 1, <<>>)

ObjectSourceMap(base_path, src) ==
    ObjectSourceMapFrom(base_path, src, 1, <<>>)

\* ---- ninja.rs: statements, rules, variables and their text ----
Variable(name, value) == [name |-> name, value |-> value]

RuleDefinition(name, command) == [name |-> name, command |-> command]

BuildStatement(input, output, rule, variables, implicit_deps) ==
    [input |-> input, output |-> output, rule |-> rule,
     variables |-> variables, implicit_deps |-> implicit_deps]

\* BuildStatement::default(), the fields a ..Default::default() fills in
DefaultVariables == <<>>
DefaultImplicitDeps == <<>>

\* Rules::to_string
RulesToString(r) ==
    CASE r = "ModCompile" -> CC_KERNEL
      [] r = "ModLink" -> LD_KMOD
      [] r = "GenunixLink" -> LD_GENUNIX

KernelCflags == Join(KERNEL_CFLAGS_VEC, <<" ">>)

KernelLdflags == Join(<<ZTYPE_KMOD>>, <<" ">>)

InitRules ==
    << RuleDefinition(RulesToString("ModCompile"),
                      Join(<<CC_CMD_1, CC_CMD_2, CC_CMD_3>>, AND_AND)),
       RuleDefinition(RulesToString("ModLink"),
                      Join(<<KMOD_CMD_1,
                             KMOD_CMD_2A \o VERSION \o KMOD_CMD_2B>>, AND_AND)),
       RuleDefinition(RulesToString("GenunixLink"),
                      Join(<<GENUNIX_CMD_1,
                             GENUNIX_CMD_2A \o VERSION \o GENUNIX_CMD_2B>>,
                           AND_AND)) >>

InitVariables ==
    << Variable(KERNEL_CFLAGS_NAME, KernelCflags),
       Variable(KERNEL_LDFLAGS_NAME, KernelLdflags) >>

\* Spec::new: rules and variables initialised, no statement yet
NinjaSpecNew ==
    [variables |-> InitVariables, rules |-> InitRules, statements |-> <<>>]

VariableEmit(v) == v.name \o EQ_SEP \o v.value \o <<"\n">>

RuleDefinitionEmit(r) ==
    RULE_KW \o r.name \o <<"\n">> \o COMMAND_KW \o r.command \o <<"\n">>

RECURSIVE StatementVariablesText(_)
StatementVariablesText(vs) ==
    IF vs = <<>> THEN <<>>
    ELSE INDENT \o VariableEmit(vs[1]) \o StatementVariablesText(Tail(vs))

BuildStatementEmit(stmt) ==
    BUILD_KW \o stmt.output \o COLON_SP \o stmt.rule \o <<" ">> \o stmt.input
        \o <<"\n">> \o StatementVariablesText(stmt.variables)

RECURSIVE EmitVariables(_)
EmitVariables(vs) ==
    IF vs = <<>> THEN <<>> ELSE VariableEmit(vs[1]) \o EmitVariables(Tail(vs))

RECURSIVE EmitRules(_)
EmitRules(rs) ==
    IF rs = <<>> THEN <<>>
    ELSE RuleDefinitionEmit(rs[1]) \o EmitRules(Tail(rs))

RECURSIVE EmitStatements(_)
EmitStatements(ss) ==
    IF ss = <<>> THEN <<>>
    ELSE BuildStatementEmit(ss[1]) \o EmitStatements(Tail(ss))

NinjaSpecEmit(spec) ==
    EmitVariables(spec.variables) \o EmitRules(spec.rules)
        \o EmitStatements(spec.statements)

\* ---- util.rs: header_deps ----
\* the header paths in the compiler's stderr: the lines that start with a
\* dot, their leading dots removed
RECURSIVE ParseHeaderLines(_)
ParseHeaderLines(ls) ==
    IF ls = <<>> THEN <<>>
    ELSE IF ~StartsWith(ls[1], <<".">>) THEN ParseHeaderLines(Tail(ls))
    ELSE <<TrimStartMatches(ls[1], ".")>> \o ParseHeaderLines(Tail(ls))

\* header_deps on the outcome of running gcc-10 -H -fsyntax-only; the
\* process is expected to have been spawned (see FinishUnit)
HeaderDeps(proc) ==
    IF ~proc.success THEN Err(GCC_DEPS_FAILED \o proc.stderr)
    ELSE Ok(ParseHeaderLines(Lines(proc.stderr)))

\* ---- util.rs: the closure of object_build_statements ----
CompileStatement(pair, deps) ==
    BuildStatement(pair[1], pair[2], RulesToString("ModCompile"),
                   DefaultVariables, deps)

\* ---- spec.rs: the link statements ----
RECURSIVE DepFlags(_)
DepFlags(dependencies) ==
    IF dependencies = <<>> THEN <<>>
    ELSE <<DASH_N \o dependencies[1]>> \o DepFlags(Tail(dependencies))

\* mod_deps as it would be with the flags joined without a separator
ModDepsUnspaced(dependencies) ==
    IF dependencies # <<>>
    THEN <<Variable(MOD_DEPS, Join(DepFlags(dependencies), <<>>))>>
    ELSE <<>>

ModDeps(dependencies) ==
    IF dependencies # <<>>
    THEN <<Variable(MOD_DEPS, Join(DepFlags(dependencies), <<" ">>))>>
    ELSE <<>>

RECURSIVE ObjectPaths(_)
ObjectPaths(pairs) ==
    IF pairs = <<>> THEN <<>>
    ELSE <<pairs[1][2]>> \o ObjectPaths(Tail(pairs))

LinkInput(pairs) == Join(ObjectPaths(pairs), <<" ">>)

\* the module link statement as it would be with the implicit dependencies
\* left to Default::default()
ModuleLinkStatementNoCore(module, pairs) ==
    BuildStatement(LinkInput(pairs), BLD_MODULES \o module.name,
                   RulesToString("ModLink"), ModDeps(module.dependencies),
                   DefaultImplicitDeps)

ModuleLinkStatement(module, pairs) ==
    BuildStatement(LinkInput(pairs), BLD_MODULES \o module.name,
                   RulesToString("ModLink"), ModDeps(module.dependencies),
                   <<BLD_GENUNIX>>)

GenunixLinkStatement(pairs) ==
    BuildStatement(LinkInput(pairs), BLD_GENUNIX, RulesToString("ModLink"),
                   DefaultVariables, DefaultImplicitDeps)

\* Spec::to_ninja's dispatch on the variant
LinkStatement(desc, pairs) ==
    IF desc.kind = "genunix" THEN GenunixLinkStatement(pairs)
    ELSE ModuleLinkStatement(desc, pairs)

\* ---- the state ----
VARIABLES
    tree,        \* the directory tree under usr/src: entry -> file type
    tomls,       \* what reading and parsing each description file gives
    ninjaFile,   \* build.ninja on disk
    pc,          \* where the process is
    stack,       \* find_build_files_rec: the active calls, innermost last
    build_files, \* the result vector of find_build_files
    idx,         \* run: position of the for loop in build_files
    ninja_spec,  \* run: the ninja::Spec being filled
    cur,         \* to_ninja: the description being translated and its path
    osm,         \* to_ninja: the source/object pairs
    slots,       \* object_build_statements: state of each unit's closure
    out,         \* object_build_statements: the vector being collected
    arrivals,    \* object_build_statements: closures finished so far
    ret,         \* what to_ninja returned
    run_result,  \* what run returned
    exit_code,   \* the process's exit status, -1 while it runs
    stderr_out,  \* what the process wrote to its standard error
    hist         \* history of the run, read by the properties only

vars == <<tree, tomls, ninjaFile, pc, stack, build_files, idx, ninja_spec,
          cur, osm, slots, out, arrivals, ret, run_result, exit_code,
          stderr_out, hist>>

\* ---- the directory tree ----
\* An entry is the sequence of names from usr/src down to it; <<>> is
\* usr/src itself.  An entry under a symlink stands for what the link's
\* target directory holds.
EntryNames == {BUILD_TOML, DIR_D}

FileTypes == {"file", "dir", "symlink", "noaccess"}

Parent(n) == SubSeq(n, 1, Len(n) - 1)

Children(t, n) == {c \in DOMAIN t : c # <<>> /\ Parent(c) = n}

\* DirEntry::path of an entry: the directory's path joined with the name
RECURSIVE EntryPath(_)
EntryPath(n) ==
    IF n = <<>> THEN USR_SRC ELSE PathPush(EntryPath(Parent(n)), n[Len(n)])

\* is_symlink as it would be on a file type that never reports a link
IsSymlinkNever(ft) == FALSE

\* FileType::is_symlink and FileType::is_dir of DirEntry::file_type, which
\* does not follow links
IsSymlink(ft) == ft = "symlink"

IsDir(ft) == ft \in {"dir", "noaccess"}

\* std::fs::read_dir succeeds on a readable directory
ReadDirOk(t, n) == t[n] = "dir"

Frame(t, n) == [dir |-> n, todo |-> Children(t, n)]

\* the entry sets of at most k entries that are closed under Parent
\* the entries that may be added to the entry set s: a name under usr/src
\* or under an entry of s
Extensions(s) ==
    {Append(p, nm) : p \in s \cup {<<>>}, nm \in EntryNames} \ s

RECURSIVE Shapes(_)
Shapes(k) ==
    IF k = 0 THEN {{}}
    ELSE LET prev == Shapes(k - 1)
         IN  prev \cup UNION {{s \cup {n} : n \in Extensions(s)} : s \in prev}

WellFormedTree(t) ==
    /\ t[<<>>] \in {"dir", "noaccess"}
    /\ \A n \in DOMAIN t :
          n # <<>> => t[Parent(n)] \in {"dir", "symlink"}

Trees(k) ==
    UNION {{t \in [s \cup {<<>>} -> FileTypes] : WellFormedTree(t)} :
              s \in Shapes(k)}

\* ---- descriptions (spec.rs: Spec, Module, Genunix) ----
Genunix(src) ==
    [kind |-> "genunix", name |-> <<>>, src |-> src, dependencies |-> <<>>]

Module(name, src, dependencies) ==
    [kind |-> "module", name |-> name, src |-> src,
     dependencies |-> dependencies]

NoDesc == Genunix(<<>>)

SeqsUpTo(S, n) == UNION {[1..k -> S] : k \in 0..n}

SrcDecls == {A_C, B_C, X_H, ABS_R_C}

DepNames == {DEP_A, DEP_B}

Descriptions ==
    {Genunix(s) : s \in SeqsUpTo(SrcDecls, MaxSrc)} \cup
    {Module(DRV, s, d) : s \in SeqsUpTo(SrcDecls, MaxSrc),
                         d \in SeqsUpTo(DepNames, MaxDeps)}

\* paths find_build_files returns: build.toml below usr/src
BasePaths == {EntryPath(<<BUILD_TOML>>), EntryPath(<<DIR_D, BUILD_TOML>>)}

\* ---- the environment of one run ----
\* what read_spec finds in a description file
TomlContents ==
    { [tag |-> "ok", spec |-> Genunix(<<A_C>>)],
      [tag |-> "ok", spec |-> Module(DRV, <<B_C>>, <<>>)],
      [tag |-> "ok", spec |-> Module(DRV, <<A_C, B_C>>, <<DEP_A, DEP_B>>)],
      [tag |-> "ok", spec |-> Module(DRV, <<A_C, X_H>>, <<>>)],
      [tag |-> "unreadable", spec |-> NoDesc],
      [tag |-> "badtoml", spec |-> NoDesc] }

\* the trees of the runs: two descriptions; one description beside a
\* symlinked directory that holds another; one description beside an
\* unreadable directory; an unreadable usr/src
RunTrees ==
    { (<<>> :> "dir") @@ (<<BUILD_TOML>> :> "file") @@ (<<DIR_D>> :> "dir")
          @@ (<<DIR_D, BUILD_TOML>> :> "file"),
      (<<>> :> "dir") @@ (<<BUILD_TOML>> :> "file")
          @@ (<<DIR_D>> :> "symlink") @@ (<<DIR_D, BUILD_TOML>> :> "file"),
      (<<>> :> "dir") @@ (<<BUILD_TOML>> :> "file")
          @@ (<<DIR_D>> :> "noaccess"),
      (<<>> :> "noaccess") }

\* the description files of a tree that the walk can reach
RECURSIVE Reachable(_, _)
Reachable(t, n) ==
    n = <<>> \/ (t[Parent(n)] = "dir" /\ Reachable(t, Parent(n)))

TomlPaths(t) ==
    {EntryPath(n) : n \in {m \in DOMAIN t :
        m # <<>> /\ m[Len(m)] = BUILD_TOML /\ t[m] = "file"
                 /\ Reachable(t, m)}}

\* how a gcc-10 -H -fsyntax-only process can end
GccOutcomes ==
    { [spawned |-> FALSE, success |-> FALSE, stderr |-> <<>>],
      [spawned |-> TRUE, success |-> FALSE, stderr |-> GCC_DIAG],
      [spawned |-> TRUE, success |-> TRUE, stderr |-> GCC_HEADERS],
      [spawned |-> TRUE, success |-> TRUE, stderr |-> <<>>] }

NoFile == [exists |-> FALSE, data |-> <<>>]

File(data) == [exists |-> TRUE, data |-> data]

NoStmt == BuildStatement(<<>>, <<>>, <<>>, <<>>, <<>>)

NoCur == [path |-> <<>>, desc |-> NoDesc]

Hist0(old) ==
    [old |-> old, writes |-> 0, fails |-> {}, nonzero |-> {},
     resolved |-> {}, headers |-> <<>>, launched |-> 0, order |-> <<>>]

\* ---- initial states ----
InitRest ==
    /\ stack = <<>>
    /\ build_files = <<>>
    /\ idx = 0
    /\ ninja_spec = [variables |-> <<>>, rules |-> <<>>, statements |-> <<>>]
    /\ osm = <<>>
    /\ slots = <<>>
    /\ out = <<>>
    /\ arrivals = 0
    /\ ret = Ok(<<>>)
    /\ run_result = Ok(<<>>)
    /\ exit_code = -1
    /\ stderr_out = <<>>

\* a run of the program on a tree of descriptions
Init ==
    /\ tree \in RunTrees
    /\ tomls \in [TomlPaths(tree) -> TomlContents]
    /\ ninjaFile \in {NoFile, File(OLD_NINJA)}
    /\ pc = "run"
    /\ cur = NoCur
    /\ hist = Hist0(ninjaFile)
    /\ InitRest

\* discovery alone, on every tree of at most MaxEntries entries
InitDiscover ==
    /\ tree \in Trees(MaxEntries)
    /\ tomls = <<>>
    /\ ninjaFile = NoFile
    /\ pc = "run"
    /\ cur = NoCur
    /\ hist = Hist0(ninjaFile)
    /\ InitRest

\* to_ninja alone, on every description within MaxSrc and MaxDeps
InitEmit ==
    /\ tree = (<<>> :> "dir")
    /\ tomls = <<>>
    /\ ninjaFile = NoFile
    /\ pc = "to_ninja"
    /\ cur \in [path : BasePaths, desc : Descriptions]
    /\ hist = Hist0(ninjaFile)
    /\ InitRest

\* ---- util.rs: find_build_files ----
\* run calls find_build_files, whose first read_dir is of usr/src
FindBuildFiles ==
    /\ pc = "run"
    /\ IF ReadDirOk(tree, <<>>)
       THEN /\ stack' = <<Frame(tree, <<>>)>>
            /\ pc' = "find_build_files"
            /\ UNCHANGED <<run_result, hist>>
       ELSE /\ run_result' = Err(IO_ERROR)
            /\ pc' = "run_ret"
            /\ hist' = [hist EXCEPT !.fails = @ \cup {"discovery"}]
            /\ UNCHANGED stack
    /\ UNCHANGED <<tree, tomls, ninjaFile, build_files, idx, ninja_spec, cur,
                   osm, slots, out, arrivals, ret, exit_code, stderr_out>>

\* one turn of the for loop of find_build_files_rec, in the innermost call:
\* read_dir yields the entries of a directory in no particular order
\* (an entry that cannot be read, or whose file type cannot be had, is
\* taken not to occur: the only failure of the walk is that of read_dir)
FindEntry ==
    /\ pc = "find_build_files"
    /\ stack # <<>>
    /\ \E e \in stack[Len(stack)].todo :
         LET rest == [stack EXCEPT ![Len(stack)].todo = @ \ {e}]
         IN  \/ /\ IsSymlink(tree[e])
                /\ stack' = rest
                /\ UNCHANGED <<build_files, pc, run_result, hist>>
             \/ /\ ~IsSymlink(tree[e])
                /\ IsDir(tree[e])
                /\ ReadDirOk(tree, e)
                /\ stack' = Append(rest, Frame(tree, e))
                /\ UNCHANGED <<build_files, pc, run_result, hist>>
             \/ /\ ~IsSymlink(tree[e])
                /\ IsDir(tree[e])
                /\ ~ReadDirOk(tree, e)
                /\ stack' = <<>>
                /\ run_result' = Err(IO_ERROR)
                /\ pc' = "run_ret"
                /\ hist' = [hist EXCEPT !.fails = @ \cup {"discovery"}]
                /\ UNCHANGED build_files
             \/ /\ ~IsSymlink(tree[e])
                /\ ~IsDir(tree[e])
                /\ e[Len(e)] = BUILD_TOML
                /\ build_files' = Append(build_files, EntryPath(e))
                /\ stack' = rest
                /\ UNCHANGED <<pc, run_result, hist>>
             \/ /\ ~IsSymlink(tree[e])
                /\ ~IsDir(tree[e])
                /\ e[Len(e)] # BUILD_TOML
                /\ stack' = rest
                /\ UNCHANGED <<build_files, pc, run_result, hist>>
    /\ UNCHANGED <<tree, tomls, ninjaFile, idx, ninja_spec, cur, osm, slots,
                   out, arrivals, ret, exit_code, stderr_out>>

\* the innermost call has seen every entry and returns Ok(()); the
\* outermost return is find_build_files returning Ok(result)
FindReturn ==
    /\ pc = "find_build_files"
    /\ stack # <<>>
    /\ stack[Len(stack)].todo = {}
    /\ stack' = SubSeq(stack, 1, Len(stack) - 1)
    /\ pc' = IF Len(stack) = 1 THEN "spec_new" ELSE pc
    /\ UNCHANGED <<tree, tomls, ninjaFile, build_files, idx, ninja_spec, cur,
                   osm, slots, out, arrivals, ret, run_result, exit_code,
                   stderr_out, hist>>

\* ---- main.rs: run, after discovery ----
\* let mut ninja_spec = ninja::Spec::new()
RunSpecNew ==
    /\ pc = "spec_new"
    /\ ninja_spec' = NinjaSpecNew
    /\ idx' = 1
    /\ pc' = "for_path"
    /\ UNCHANGED <<tree, tomls, ninjaFile, stack, build_files, cur, osm,
                   slots, out, arrivals, ret, run_result, exit_code,
                   stderr_out, hist>>

\* util.rs: read_spec on a description file
ReadSpecResult(path, content) ==
    CASE content.tag = "unreadable" -> Err(IO_ERROR)
      [] content.tag = "badtoml" -> Err(path \o COLON_SP \o TOML_ERROR)
      [] content.tag = "ok" -> Ok(content.spec)

\* the for loop takes the next path and reads its description: read_spec(
\* path)? returns from run on an error
ReadSpec ==
    /\ pc = "for_path"
    /\ idx <= Len(build_files)
    /\ LET path == build_files[idx]
           r == ReadSpecResult(path, tomls[path])
       IN  IF r.ok
           THEN /\ cur' = [path |-> path, desc |-> r.val]
                /\ pc' = "to_ninja"
                /\ UNCHANGED <<run_result, hist>>
           ELSE /\ run_result' = Err(r.err)
                /\ pc' = "run_ret"
                /\ hist' = [hist EXCEPT !.fails = @ \cup {"read_spec"}]
                /\ UNCHANGED cur
    /\ UNCHANGED <<tree, tomls, ninjaFile, stack, build_files, idx,
                   ninja_spec, osm, slots, out, arrivals, ret, exit_code,
                   stderr_out>>

\* the for loop is over
LoopEnd ==
    /\ pc = "for_path"
    /\ idx > Len(build_files)
    /\ pc' = "emit_file"
    /\ UNCHANGED <<tree, tomls, ninjaFile, stack, build_files, idx,
                   ninja_spec, cur, osm, slots, out, arrivals, ret,
                   run_result, exit_code, stderr_out, hist>>

\* ---- spec.rs: to_ninja ----
\* let osm = util::object_source_map(path, &self.src)?, and on success the
\* call of object_build_statements, which hands one closure per pair to the
\* pool
ToNinjaMap ==
    /\ pc = "to_ninja"
    /\ LET r == ObjectSourceMap(cur.path, cur.desc.src)
       IN  IF r.ok
           THEN /\ osm' = r.val
                /\ slots' = [i \in 1..Len(r.val) |-> "idle"]
                /\ out' = [i \in 1..Len(r.val) |-> NoStmt]
                /\ arrivals' = 0
                /\ pc' = "par_iter"
                /\ hist' = [hist EXCEPT
                              !.headers = [i \in 1..Len(r.val) |-> <<>>],
                              !.order = <<>>]
                /\ UNCHANGED ret
           ELSE /\ ret' = Err(r.err)
                /\ pc' = "to_ninja_ret"
                /\ hist' = [hist EXCEPT !.fails = @ \cup {"source"}]
                /\ UNCHANGED <<osm, slots, out, arrivals>>
    /\ UNCHANGED <<tree, tomls, ninjaFile, stack, build_files, idx,
                   ninja_spec, cur, run_result, exit_code, stderr_out>>

\* ---- util.rs: object_build_statements ----
\* a worker takes the closure of unit i and launches gcc-10
StartUnit(i) ==
    /\ pc = "par_iter"
    /\ slots[i] = "idle"
    /\ slots' = [slots EXCEPT ![i] = "running"]
    /\ hist' = [hist EXCEPT !.launched = @ + 1]
    /\ UNCHANGED <<tree, tomls, ninjaFile, pc, stack, build_files, idx,
                   ninja_spec, cur, osm, out, arrivals, ret, run_result,
                   exit_code, stderr_out>>

\* the position as it would be if results were pushed as closures finish
CollectSlotByArrival(i, arrived) == arrived + 1

\* the position of the collected vector that unit i's statement takes when
\* `arrived` closures finished before it: par_iter over a slice is indexed,
\* and collect keeps the positions of the input
CollectSlot(i, arrived) == i

\* the message a panicking closure leaves: expect's when gcc-10 could not be
\* run, unwrap's (the Err of header_deps) when gcc-10 failed
PanicText(proc) ==
    IF ~proc.spawned THEN EXPECT_GCC ELSE HeaderDeps(proc).err

\* whether the closure of a unit whose gcc-10 ended as proc panics
ClosurePanics(proc) == ~proc.spawned \/ ~HeaderDeps(proc).ok

\* gcc-10 of unit i ends and the closure finishes: with the unit's
\* statement, or panicking in expect or unwrap
FinishUnit(i) ==
    /\ pc = "par_iter"
    /\ slots[i] = "running"
    /\ \E proc \in GccOutcomes :
         IF ClosurePanics(proc)
         THEN /\ slots' = [slots EXCEPT ![i] = "panicked"]
              /\ stderr_out' = Append(stderr_out,
                     [kind |-> "panic", text |-> PanicText(proc)])
              /\ hist' = [hist EXCEPT
                    !.fails = @ \cup {"headers"},
                    !.nonzero = IF proc.spawned THEN @ \cup {proc.stderr}
                                ELSE @]
              /\ UNCHANGED <<out, arrivals>>
         ELSE /\ slots' = [slots EXCEPT ![i] = "done"]
              /\ out' = [out EXCEPT ![CollectSlot(i, arrivals)] =
                            CompileStatement(osm[i], HeaderDeps(proc).val)]
              /\ arrivals' = arrivals + 1
              /\ hist' = [hist EXCEPT
                    !.headers[i] = HeaderDeps(proc).val,
                    !.order = Append(@, i),
                    !.resolved = @ \cup
                        {<<osm[i], HeaderDeps(proc).val[k]>> :
                            k \in 1..Len(HeaderDeps(proc).val)}]
              /\ UNCHANGED stderr_out
    /\ UNCHANGED <<tree, tomls, ninjaFile, pc, stack, build_files, idx,
                   ninja_spec, cur, osm, ret, run_result, exit_code>>

\* a closure panicked and no other is running: the pool resumes the panic
\* in the thread that called collect, nothing catches it, and the process
\* ends with the status of a panic
ParPanic ==
    /\ pc = "par_iter"
    /\ \E i \in DOMAIN slots : slots[i] = "panicked"
    /\ \A i \in DOMAIN slots : slots[i] # "running"
    /\ pc' = "panicked"
    /\ exit_code' = 101
    /\ UNCHANGED <<tree, tomls, ninjaFile, stack, build_files, idx,
                   ninja_spec, cur, osm, slots, out, arrivals, ret,
                   run_result, stderr_out, hist>>

\* every closure finished: collect returns the vector, to_ninja pushes the
\* link statement and returns Ok(stmts)
ToNinjaLink ==
    /\ pc = "par_iter"
    /\ \A i \in DOMAIN slots : slots[i] = "done"
    /\ ret' = Ok(Append(out, LinkStatement(cur.desc, osm)))
    /\ pc' = "to_ninja_ret"
    /\ UNCHANGED <<tree, tomls, ninjaFile, stack, build_files, idx,
                   ninja_spec, cur, osm, slots, out, arrivals, run_result,
                   exit_code, stderr_out, hist>>

\* the loop body as it would be if an Err of to_ninja were dropped and the
\* loop went on to the next description
RunExtendSwallowing ==
    /\ pc = "to_ninja_ret"
    /\ ninja_spec' = [ninja_spec EXCEPT !.statements = @ \o ret.val]
    /\ idx' = idx + 1
    /\ pc' = "for_path"
    /\ UNCHANGED <<tree, tomls, ninjaFile, stack, build_files, cur, osm,
                   slots, out, arrivals, ret, run_result, exit_code,
                   stderr_out, hist>>

\* ---- main.rs: run, after to_ninja ----
\* ninja_spec.statements.extend(...to_ninja(path)?): an Err returns from
\* run, an Ok extends the statements and the loop goes on
RunExtend ==
    /\ pc = "to_ninja_ret"
    /\ IF ret.ok
       THEN /\ ninja_spec' = [ninja_spec EXCEPT !.statements = @ \o ret.val]
            /\ idx' = idx + 1
            /\ pc' = "for_path"
            /\ UNCHANGED run_result
       ELSE /\ run_result' = Err(ret.err)
            /\ pc' = "run_ret"
            /\ UNCHANGED <<ninja_spec, idx>>
    /\ UNCHANGED <<tree, tomls, ninjaFile, stack, build_files, cur, osm,
                   slots, out, arrivals, ret, exit_code, stderr_out, hist>>

\* ninja.rs: emit_file.  std::fs::write creates or truncates build.ninja
\* and writes the text; it can fail before the file is touched or after it
\* was truncated
EmitFile ==
    /\ pc = "emit_file"
    /\ \/ /\ ninjaFile' = File(NinjaSpecEmit(ninja_spec))
          /\ run_result' = Ok(<<>>)
       \/ /\ ninjaFile' = ninjaFile
          /\ run_result' = Err(IO_ERROR)
       \/ /\ ninjaFile' = File(<<>>)
          /\ run_result' = Err(IO_ERROR)
    /\ hist' = [hist EXCEPT !.writes = @ + 1]
    /\ pc' = "run_ret"
    /\ UNCHANGED <<tree, tomls, stack, build_files, idx, ninja_spec, cur,
                   osm, slots, out, arrivals, ret, exit_code, stderr_out>>

\* ---- main.rs: main ----
\* colored's "error".red(): wrapped in the escape sequences of red when
\* colouring is on ("ESC" stands for the escape character)
Red(s, on) ==
    IF on THEN <<"ESC", "[", "3", "1", "m">> \o s \o <<"ESC", "[", "0", "m">>
    ELSE s

\* run returned: an Err is printed and the process exits with status 1
Main ==
    /\ pc = "run_ret"
    /\ IF run_result.ok
       THEN /\ exit_code' = 0
            /\ UNCHANGED stderr_out
       ELSE /\ exit_code' = 1
            /\ \E on \in BOOLEAN :
                 stderr_out' = Append(stderr_out,
                     [kind |-> "error",
                      text |-> Red(ERROR_WORD, on) \o <<" ">>
                                 \o run_result.err \o <<"\n">>])
    /\ pc' = "exit"
    /\ UNCHANGED <<tree, tomls, ninjaFile, stack, build_files, idx,
                   ninja_spec, cur, osm, slots, out, arrivals, ret,
                   run_result, hist>>

\* ---- specifications ----
NextDiscover == FindBuildFiles \/ FindEntry \/ FindReturn

NextEmit ==
    \/ ToNinjaMap
    \/ \E i \in DOMAIN slots : StartUnit(i)
    \/ \E i \in DOMAIN slots : FinishUnit(i)
    \/ ParPanic
    \/ ToNinjaLink

Next ==
    \/ NextDiscover
    \/ RunSpecNew
    \/ ReadSpec
    \/ LoopEnd
    \/ NextEmit
    \/ RunExtend
    \/ EmitFile
    \/ Main

\* a run of the program
Spec == Init /\ [][Next]_vars

\* find_build_files on every bounded tree
SpecDiscover == InitDiscover /\ [][NextDiscover]_vars

\* to_ninja on every bounded description
SpecEmit == InitEmit /\ [][NextEmit]_vars

\* ---- properties ----
\* whether sub occurs in s
Contains(s, sub) ==
    \E k \in 0..(Len(s) - Len(sub)) : SubSeq(s, k + 1, k + Len(sub)) = sub

Range(f) == {f[i] : i \in DOMAIN f}

\* a declaration that ends in ".c"
EndsInDotC(s) == Len(s) >= 2 /\ s[Len(s) - 1] = "." /\ s[Len(s)] = "c"

\* the statement a successful to_ninja returned last
LinkOf(r) == r.val[Len(r.val)]

Returned == pc = "to_ninja_ret"

\* the names the properties expect in the graph
CoreImagePath == <<"b","l","d","/","g","e","n","u","n","i","x">>
CoreLinkRule == <<"l","d","_","g","e","n","u","n","i","x">>
ModuleLinkRule == <<"l","d","_","k","m","o","d">>
CompileRule == <<"c","c","_","k","e","r","n","e","l">>
DepFlagVariable == <<"m","o","d","_","d","e","p","s">>

\* the line of text s that starts at position k, its "\n" left out
LineAt(s, k) ==
    LET ends == {j \in k..Len(s) : s[j] = "\n"}
        e == IF ends = {} THEN Len(s) + 1
             ELSE CHOOSE j \in ends : \A m \in ends : j <= m
    IN  SubSeq(s, k, e - 1)

\* the lines of s that start with prefix
LinesStarting(s, prefix) ==
    {LineAt(s, k) : k \in {j \in 1..Len(s) :
        /\ j = 1 \/ s[j - 1] = "\n"
        /\ SubSeq(s, j, j + Len(prefix) - 1) = prefix}}

\* C1: every header the resolver returned for a unit is recorded as a
\* dependency of that unit's compile statement in the build.ninja the run
\* wrote: the build line of the unit's object names the header.
C1_HeadersRecordedInArtifact ==
    (hist.writes = 1 /\ run_result.ok /\ pc \in {"run_ret", "exit"}) =>
        \A r \in hist.resolved :
            LET ls == LinesStarting(ninjaFile.data,
                        <<"b","u","i","l","d"," ">> \o r[1][2] \o <<":">>)
            IN  /\ ls # {}
                /\ \A l \in ls : Contains(l, r[2])

\* C2: build.ninja is written at most once, only after discovery and the
\* read, parse, source validation and header resolution of every discovered
\* description succeeded; after any failure of those no write is made and
\* the file is what it was before the run.
C2_FailFastNoPartialArtifact ==
    /\ hist.writes <= 1
    /\ hist.writes = 1 =>
          /\ hist.fails = {}
          /\ pc \in {"run_ret", "exit"}
          /\ stack = <<>>
          /\ idx = Len(build_files) + 1
          /\ \A p \in Range(build_files) : tomls[p].tag = "ok"
    /\ hist.fails # {} => (hist.writes = 0 /\ ninjaFile = hist.old)

\* a run in which the second description failed after the first gave its
\* statements, ended, and left the old build.ninja in place
C2_Witness ==
    /\ pc \in {"exit", "panicked"}
    /\ hist.fails # {}
    /\ ninja_spec.statements # <<>>
    /\ hist.old.exists
    /\ ninjaFile = hist.old

\* C3: object_build_statements returns one statement per unit, the i-th
\* being the one of the i-th (source, object) pair with the headers resolved
\* for that unit, whatever the order in which the closures finished.
C3_OrderPreserved ==
    /\ (pc = "par_iter" /\ \A i \in DOMAIN slots : slots[i] = "done") =>
          /\ Len(out) = Len(cur.desc.src)
          /\ \A i \in 1..Len(cur.desc.src) :
                /\ out[i].input = osm[i][1]
                /\ out[i].output = osm[i][2]
                /\ out[i].rule = CompileRule
                /\ out[i].implicit_deps = hist.headers[i]
    /\ (Returned /\ ret.ok) =>
          /\ Len(ret.val) = Len(cur.desc.src) + 1
          /\ \A i \in 1..Len(cur.desc.src) :
                /\ ret.val[i].input = osm[i][1]
                /\ ret.val[i].output = osm[i][2]
                /\ ret.val[i].implicit_deps = hist.headers[i]

\* two different units whose closures finished in the reverse of the input
\* order, with different headers
C3_Witness ==
    /\ Returned
    /\ ret.ok
    /\ Len(osm) = 2
    /\ osm[1] # osm[2]
    /\ hist.order = <<2, 1>>
    /\ hist.headers[1] # hist.headers[2]

\* C4: a compiler that exits non-zero is propagated as an error value up to
\* main's handler, which reports it once with the compiler's text and exits
\* with status 1; the run ends in no other way.
C4_CompilerFailureReachesHandler ==
    hist.nonzero # {} =>
        /\ pc # "panicked"
        /\ \A k \in DOMAIN stderr_out : stderr_out[k].kind = "error"
        /\ pc = "exit" =>
              /\ exit_code = 1
              /\ Len(stderr_out) = 1
              /\ \E d \in hist.nonzero : Contains(stderr_out[1].text, d)

\* C5: a module's link statement has the core image among its implicit
\* dependencies; the core description's link statement has none.
C5_ImplicitCoreDependency ==
    (Returned /\ ret.ok) =>
        /\ cur.desc.kind = "module" =>
              CoreImagePath \in Range(LinkOf(ret).implicit_deps)
        /\ cur.desc.kind = "genunix" => LinkOf(ret).implicit_deps = <<>>

\* a module description with sources was translated
C5_Witness ==
    /\ Returned
    /\ ret.ok
    /\ cur.desc.kind = "module"
    /\ Len(ret.val) > 1
    /\ LinkOf(ret).implicit_deps = <<CoreImagePath>>

\* C6: the link statement's rule matches the variant: ld_genunix with output
\* bld/genunix for a core description, ld_kmod for a module description.
C6_LinkRuleMatchesVariant ==
    (Returned /\ ret.ok) =>
        /\ cur.desc.kind = "genunix" =>
              /\ LinkOf(ret).rule = CoreLinkRule
              /\ LinkOf(ret).output = CoreImagePath
        /\ cur.desc.kind = "module" => LinkOf(ret).rule = ModuleLinkRule

\* C7: a description with a declaration that does not end in ".c", at any
\* position, makes to_ninja fail with an error naming such a declaration
\* and yields no statement: no compiler is launched, nothing is collected.
C7_BadSuffixFailsWithoutStatements ==
    (\E i \in DOMAIN cur.desc.src : ~EndsInDotC(cur.desc.src[i])) =>
        /\ pc \in {"to_ninja", "to_ninja_ret"}
        /\ hist.launched = 0
        /\ out = <<>>
        /\ Returned =>
              /\ ~ret.ok
              /\ ret.val = <<>>
              /\ \E i \in DOMAIN cur.desc.src :
                    /\ ~EndsInDotC(cur.desc.src[i])
                    /\ Contains(ret.err, cur.desc.src[i])

\* the declaration without the suffix comes after a valid one
C7_Witness ==
    /\ Returned
    /\ ~ret.ok
    /\ Len(cur.desc.src) = 2
    /\ EndsInDotC(cur.desc.src[1])
    /\ ~EndsInDotC(cur.desc.src[2])

\* C8: for every input object_source_map accepts, the object path of every
\* pair begins with the component "bld".
C8_ObjectPathUnderBld ==
    pc \in {"par_iter", "to_ninja_ret", "panicked"} =>
        \A i \in DOMAIN osm : StartsWith(osm[i][2], <<"b","l","d","/">>)

\* the flags of a dependency list, each "-N<dep>", one space between two
RECURSIVE FlagsText(_)
FlagsText(deps) ==
    IF Len(deps) = 1 THEN <<"-", "N">> \o deps[1]
    ELSE <<"-", "N">> \o deps[1] \o <<" ">> \o FlagsText(Tail(deps))

\* C9: a module's link statement carries the variable mod_deps exactly when
\* the dependency list is not empty, its value being "-N<dep>" for each
\* dependency in declaration order, separated by one space.
C9_ModDepsFlags ==
    (Returned /\ ret.ok /\ cur.desc.kind = "module") =>
        LET vs == LinkOf(ret).variables
            deps == cur.desc.dependencies
        IN  /\ deps = <<>> => vs = <<>>
            /\ deps # <<>> =>
                  /\ Len(vs) = 1
                  /\ vs[1].name = DepFlagVariable
                  /\ vs[1].value = FlagsText(deps)
                  /\ Len(vs[1].value) =
                        Len(deps) - 1 + 2 * Len(deps)
                          + Len(Join(deps, <<>>))
            /\ deps = <<<<"a">>, <<"b">>>> =>
                  vs[1].value = <<"-","N","a"," ","-","N","b">>

\* the module declaring a and b, in that order
C9_Witness ==
    /\ Returned
    /\ ret.ok
    /\ cur.desc.kind = "module"
    /\ cur.desc.dependencies = <<<<"a">>, <<"b">>>>
    /\ LinkOf(ret).variables # <<>>

\* an entry that is a symlink or lies under one
RECURSIVE ThroughSymlink(_)
ThroughSymlink(n) ==
    n # <<>> /\ (tree[n] = "symlink" \/ ThroughSymlink(Parent(n)))

\* a regular file named build.toml whose directories are all real
RealBuildFile(n) ==
    /\ n # <<>>
    /\ tree[n] = "file"
    /\ n[Len(n)] = <<"b","u","i","l","d",".","t","o","m","l">>
    /\ ~ThroughSymlink(n)

Occurrences(s, x) == Cardinality({k \in DOMAIN s : s[k] = x})

\* C10: discovery neither descends into a symlink nor returns one, so no
\* path through a symlink is discovered; when it succeeds, every regular
\* build.toml reached through real directories is discovered exactly once.
C10_SymlinksNeverFollowed ==
    /\ \A k \in DOMAIN stack : ~ThroughSymlink(stack[k].dir)
    /\ \A n \in DOMAIN tree :
          ThroughSymlink(n) => EntryPath(n) \notin Range(build_files)
    /\ pc = "spec_new" =>
          \A n \in DOMAIN tree :
              RealBuildFile(n) => Occurrences(build_files, EntryPath(n)) = 1

\* a tree with a description under a symlinked directory and a real
\* description, walked to the end
C10_Witness ==
    /\ pc = "spec_new"
    /\ \E n \in DOMAIN tree :
          tree[n] = "file" /\ ThroughSymlink(n) /\ n[Len(n)] = BUILD_TOML
    /\ \E n \in DOMAIN tree : RealBuildFile(n)
    /\ build_files # <<>>
====
